---- MODULE Spec2Model ----
(***************************************************************************)
(* Model of the `compilescss` management command                           *)
(* (sass_processor/management/commands/compilescss.py).                    *)
(*                                                                         *)
(* One run of the command is Command.handle: find_templates, then          *)
(* parse_template for every template found (in the unspecified iteration   *)
(* order of a Python set), which walks the node tree and calls compile or  *)
(* delete_file for every node, then the summary line.  The model runs the  *)
(* command up to MaxRuns times in a row on an unchanged template tree and  *)
(* unchanged SASS sources; the .css files on disk persist between runs.    *)
(*                                                                         *)
(* Paths and file names are sequences of one-character strings, so that    *)
(* fnmatch and os.path.splitext are computed as the library computes them. *)
(***************************************************************************)
EXTENDS Integers, Sequences, FiniteSets, TLC

VARIABLES
    TEMPLATE_LOADERS,  \* settings.TEMPLATE_LOADERS (a set of loader names)
    tree,              \* file names found by os.walk under the template root
    disk,              \* the .css files on disk: path -> content, NoFile if absent
    pc,                \* position of the command: idle, templates, nodes, done, crashed, config_error
    show_errors,       \* self.show_errors
    delete_files,      \* self.delete_files
    compiled_files,    \* self.compiled_files (a Python list)
    templates,         \* templates not yet iterated by the for loop of handle
    nodes,             \* nodes not yet iterated by the for loop of parse_template
    stdout,            \* lines written to self.stdout in this run
    cur,               \* template_name of the running / last parse_template call
    found,             \* the set find_templates returned in this run
    failure,           \* the exception that left handle, "none" if none did
    written,           \* .css paths written by open(destpath, 'w') in this run
    removed,           \* .css paths removed by os.remove in this run
    generated,         \* .css paths written by any run so far
    lastOp,            \* the last compile / delete_file call and what find_file returned
    prev,              \* what the previous run left behind
    runs               \* number of runs started

vars == <<TEMPLATE_LOADERS, tree, disk, pc, show_errors, delete_files,
          compiled_files, templates, nodes, stdout, cur, found, failure,
          written, removed, generated, lastOp, prev, runs>>

----------------------------------------------------------------------------
(* Bounds of the model. *)

MaxRuns == 2

MaxFiles == 2

----------------------------------------------------------------------------
(* Sequences of characters. *)

Range(s) == {s[i] : i \in 1..Len(s)}

EndsWith(s, suffix) ==
    /\ Len(suffix) <= Len(s)
    /\ SubSeq(s, Len(s) - Len(suffix) + 1, Len(s)) = suffix

StartsWith(s, prefix) ==
    /\ Len(prefix) <= Len(s)
    /\ SubSeq(s, 1, Len(prefix)) = prefix

\* str.rfind, 1-based, 0 when absent
LastIndex(s, c) ==
    LET hits == {i \in 1..Len(s) : s[i] = c}
    IN IF hits = {} THEN 0 ELSE CHOOSE i \in hits : \A j \in hits : j <= i

\* os.path.splitext (posixpath): the extension starts at the last dot of the
\* last path component, leading dots of that component not counted
Splitext(p) ==
    LET sepIndex == LastIndex(p, "/")
        dotIndex == LastIndex(p, ".")
    IN IF dotIndex > sepIndex
          /\ \E i \in (sepIndex + 1)..(dotIndex - 1) : p[i] # "."
       THEN <<SubSeq(p, 1, dotIndex - 1), SubSeq(p, dotIndex, Len(p))>>
       ELSE <<p, <<>> >>

\* os.path.join(root, name)
Join(root, name) == root \o <<"/">> \o name

\* fnmatch(name, "*%s" % glob) for a glob without wildcard characters
Fnmatch(name, glob) == EndsWith(name, glob)

----------------------------------------------------------------------------
(* The environment of the command: the files under the template root, what *)
(* the template parser makes of each, the SASS sources the resolver finds, *)
(* and the compiler.  None of it changes between runs.                     *)

HTML == <<".", "h", "t", "m", "l">>

page_html   == <<"p">> \o HTML
alt_html    == <<"q">> \o HTML
ext_html    == <<"e">> \o HTML
bad_html    == <<"k">> \o HTML
ro_html     == <<"r">> \o HTML
io_html     == <<"i">> \o HTML
syntax_html == <<"y">> \o HTML
gone_html   == <<"g">> \o HTML
binary_html == <<"u">> \o HTML
notes_txt   == <<"n", ".", "t", "x", "t">>
hidden_html == <<".", "h">> \o HTML
app_js      == <<"j", ".", "j", "s">>

AllFiles == {page_html, alt_html, ext_html, bad_html, ro_html, io_html,
             syntax_html, gone_html, binary_html, notes_txt, hidden_html, app_js}

\* the one directory the template loaders search
TemplateRoot == <<"T">>

a_scss    == <<"a", ".", "s", "c", "s", "s">>
a_sass    == <<"a", ".", "s", "a", "s", "s">>
b_scss    == <<"b", ".", "s", "c", "s", "s">>
k_scss    == <<"k", ".", "s", "c", "s", "s">>
ro_c_scss == <<"r", "o", "/", "c", ".", "s", "c", "s", "s">>
x_scss    == <<"x", ".", "s", "c", "s", "s">>
s_css     == <<"s", ".", "c", "s", "s">>

\* the SASS/SCSS sources that exist under the static root
StaticFiles == {a_scss, a_sass, b_scss, k_scss, ro_c_scss}

StaticRoot == <<"/", "S", "/">>

\* a directory in which files can neither be created nor removed
ReadOnlyDir == StaticRoot \o <<"r", "o", "/">>

\* sass_processor.storage.find_file: the absolute path of a logical path,
\* or nothing (the empty path, falsy like None) when no finder has it
FindFile(path) == IF path \in StaticFiles THEN StaticRoot \o path ELSE <<>>

SassSrcNode(path, is_sass) ==
    [kind |-> "SassSrcNode", path |-> path, is_sass |-> is_sass, include_paths |-> <<>>]

Node(nodelist) == [kind |-> "Node", nodelist |-> nodelist]

TextNode == [kind |-> "TextNode"]

\* an {% extends %} node whose parent template cannot be loaded
ExtendsNode == [kind |-> "ExtendsNode"]

\* self.parser.parse(template_name): the exception raised ("none" if none)
\* and the parsed template
Parse(template_name) ==
    LET name == SubSeq(template_name, Len(TemplateRoot) + 2, Len(template_name))
        ok(t) == [exc |-> "none", template |-> t]
    IN CASE name = page_html ->
              ok(Node(<<SassSrcNode(a_scss, TRUE),
                        Node(<<SassSrcNode(b_scss, TRUE), SassSrcNode(a_scss, TRUE),
                               SassSrcNode(x_scss, TRUE)>>),
                        SassSrcNode(s_css, FALSE),
                        TextNode>>))
         [] name = alt_html ->
              ok(Node(<<SassSrcNode(a_sass, TRUE), TextNode, SassSrcNode(b_scss, TRUE)>>))
         [] name = ext_html ->
              ok(Node(<<SassSrcNode(b_scss, TRUE), Node(<<ExtendsNode>>)>>))
         [] name = bad_html -> ok(Node(<<SassSrcNode(k_scss, TRUE)>>))
         [] name = ro_html -> ok(Node(<<SassSrcNode(ro_c_scss, TRUE)>>))
         [] name = io_html -> [exc |-> "IOError"]
         [] name = syntax_html -> [exc |-> "TemplateSyntaxError"]
         [] name = gone_html -> [exc |-> "TemplateDoesNotExist"]
         [] name = binary_html -> [exc |-> "UnicodeDecodeError"]
         [] name = hidden_html -> ok(Node(<<SassSrcNode(b_scss, TRUE)>>))
         [] OTHER -> ok(Node(<<TextNode>>))

\* self.parser.get_nodelist(node, original): the child nodes, or an exception
GetNodelist(node) ==
    CASE node.kind = "Node" -> [raised |-> FALSE, nodelist |-> node.nodelist]
      [] node.kind = "ExtendsNode" -> [raised |-> TRUE, nodelist |-> <<>>]
      [] OTHER -> [raised |-> FALSE, nodelist |-> <<>>]

output_style == "compact"

\* sass.compile(include_paths, filename, output_style): the CSS text, or a
\* CompileError; the same source always compiles to the same text
SassCompile(include_paths, filename, style) ==
    IF filename \in {FindFile(a_scss), FindFile(a_sass), FindFile(b_scss), FindFile(ro_c_scss)}
    THEN [raised |-> FALSE, content |-> <<"css", style, filename>>]
    ELSE [raised |-> TRUE, content |-> <<>>]

CssExt == <<".", "c", "s", "s">>

\* every .css path the command can touch
AllCss == {Splitext(FindFile(p))[1] \o CssExt : p \in StaticFiles}

NoFile == <<>>

\* content of a .css file that was on disk before the first run
HandWritten == <<"hand">>

\* open(destpath, 'w') and os.remove(destpath) raise in a read-only directory
Writable(destpath) == ~StartsWith(destpath, ReadOnlyDir)

----------------------------------------------------------------------------
(* The functions of the command. *)

\* get_loaders, and the body of the loop of find_templates over it: the
\* template directories a loader names; a loader without usable
\* get_template_sources raises in the try block and contributes nothing
GetTemplateSources(loader) ==
    IF loader = "filesystem" THEN {TemplateRoot} ELSE {}

\* self.template_exts (settings.SASS_TEMPLATE_EXTS, default ['.html']);
\* find_templates never reads it
template_exts == {HTML}

\* the local `extensions = 'html'` of find_templates: iterating a str yields
\* its characters, so the globs are "*h", "*t", "*m", "*l"
extensions == {<<"h">>, <<"t">>, <<"m">>, <<"l">>}

\* find_templates: the templates found, or ImproperlyConfigured
find_templates ==
    LET paths == UNION {GetTemplateSources(l) : l \in TEMPLATE_LOADERS}
        found_ == {Join(root, name) : root \in paths,
                      name \in {n \in tree :
                                   /\ ~StartsWith(n, <<".">>)
                                   /\ \E glob \in extensions : Fnmatch(n, glob)}}
    IN IF TEMPLATE_LOADERS = {} \/ paths = {} \/ found_ = {}
       THEN [raised |-> TRUE, templates |-> {}]
       ELSE [raised |-> FALSE, templates |-> found_]

RECURSIVE walk_nodes(_), WalkNodelist(_)

\* walk_nodes: the nodes the generator yields, in order, and whether it then
\* raised (an exception of get_nodelist ends the generator where it stands)
walk_nodes(node) ==
    LET nl == GetNodelist(node)
    IN IF nl.raised
       THEN [nodes |-> <<>>, raised |-> TRUE]
       ELSE WalkNodelist(nl.nodelist)

\* the for loop of walk_nodes over one nodelist
WalkNodelist(nodelist) ==
    IF nodelist = <<>>
    THEN [nodes |-> <<>>, raised |-> FALSE]
    ELSE LET node == Head(nodelist)
             first == IF node.kind = "SassSrcNode"
                      THEN [nodes |-> IF node.is_sass THEN <<node>> ELSE <<>>,
                            raised |-> FALSE]
                      ELSE walk_nodes(node)
         IN IF first.raised
            THEN first
            ELSE LET rest == WalkNodelist(Tail(nodelist))
                 IN [nodes |-> first.nodes \o rest.nodes, raised |-> rest.raised]

\* parse_template without the `except TemplateSyntaxError` clause
CaughtParseErrorsNoSyntax == {"IOError", "TemplateDoesNotExist", "UnicodeDecodeError"}

\* the except clauses of the first try block of parse_template
CaughtParseErrors ==
    {"IOError", "TemplateSyntaxError", "TemplateDoesNotExist", "UnicodeDecodeError"}

\* the except clauses of parse_template that end in `return`; the
\* UnicodeDecodeError clause does not, and control falls through to the walk
ReturningParseErrors == {"IOError", "TemplateSyntaxError", "TemplateDoesNotExist"}

\* the line each except clause writes when show_errors is set
ParseErrorLine(exc, template_name) ==
    CASE exc = "IOError" -> <<"Unreadable template at", template_name>>
      [] exc = "TemplateSyntaxError" -> <<"Invalid template", template_name>>
      [] exc = "TemplateDoesNotExist" -> <<"Non-existent template at", template_name>>
      [] OTHER -> <<"UnicodeDecodeError while trying to read template", template_name>>

\* parse_template acting on what the walker yielded before it raised
NodesToProcessYielded(walk) == walk.nodes

\* `nodes = list(self.walk_nodes(template))` with its except / else: the nodes
\* the for loop of the else clause iterates
NodesToProcess(walk) == IF walk.raised THEN <<>> ELSE walk.nodes

\* basename, _ = os.path.splitext(sass_filename); destpath = basename + '.css'
Destpath(sass_filename) == Splitext(sass_filename)[1] \o CssExt

\* compile without the `sass_filename in self.compiled_files` test
CompileSkipsUnresolvedOnly(sass_filename, files) == sass_filename = <<>>

\* compile without the `not sass_filename` test
CompileSkipsCompiledOnly(sass_filename, files) == sass_filename \in Range(files)

\* the early return of compile: `not sass_filename or sass_filename in self.compiled_files`
CompileSkips(sass_filename, files) ==
    sass_filename = <<>> \/ sass_filename \in Range(files)

\* the early return of delete_file: `not sass_filename`
DeleteSkips(sass_filename) == sass_filename = <<>>

\* delete_file without the os.path.isfile test
IsFileAlways(dsk, destpath) == TRUE

\* os.path.isfile(destpath)
IsFile(dsk, destpath) == destpath \in DOMAIN dsk /\ dsk[destpath] # NoFile

\* compile and delete_file without the append
AppendCompiledForgotten(files, sass_filename) == files

\* self.compiled_files.append(sass_filename)
AppendCompiled(files, sass_filename) == Append(files, sass_filename)

\* handle without the reset of self.compiled_files
FreshCompiledFilesKept(files) == files

\* self.compiled_files = [] at the start of handle
FreshCompiledFiles(files) == <<>>

\* the state the loops of handle and parse_template are in after a node
NextPc(rest) == IF rest = <<>> THEN "templates" ELSE "nodes"

----------------------------------------------------------------------------
(* The state before the first run: any template tree of at most MaxFiles   *)
(* files, a loader configuration, and some .css files already on disk.     *)

\* settings.TEMPLATE_LOADERS: none, one that names no directory, or both kinds
LoaderConfigs == {{}, {"noop"}, {"filesystem", "noop"}}

\* the .css files that may be on disk before the first run
PreCss == {Destpath(FindFile(a_scss)), Destpath(FindFile(ro_c_scss))}

NoRun ==
    [ran |-> FALSE, done |-> FALSE, delete_files |-> FALSE, count |-> 0,
     compiled |-> <<>>, written |-> {}, removed |-> {}, disk |-> [d \in AllCss |-> NoFile]]

NoOp == [op |-> "none", path |-> <<>>, sass_filename |-> <<>>]

Init ==
    /\ TEMPLATE_LOADERS \in LoaderConfigs
    /\ tree \in {S \in SUBSET AllFiles : Cardinality(S) <= MaxFiles}
    /\ \E pre \in SUBSET PreCss :
          disk = [d \in AllCss |-> IF d \in pre THEN HandWritten ELSE NoFile]
    /\ pc = "idle"
    /\ show_errors = FALSE
    /\ delete_files = FALSE
    /\ compiled_files = <<>>
    /\ templates = {}
    /\ nodes = <<>>
    /\ stdout = <<>>
    /\ cur = <<>>
    /\ found = {}
    /\ failure = "none"
    /\ written = {}
    /\ removed = {}
    /\ generated = {}
    /\ lastOp = NoOp
    /\ prev = NoRun
    /\ runs = 0

----------------------------------------------------------------------------
(* The steps of a run. *)

\* handle, up to the for loop: the options, the fresh compiled_files, and
\* find_templates; ImproperlyConfigured leaves handle at once
handle ==
    /\ pc \in {"idle", "done", "crashed", "config_error"}
    /\ runs < MaxRuns
    /\ \E se \in BOOLEAN, df \in BOOLEAN :
          /\ show_errors' = se
          /\ delete_files' = df
    /\ compiled_files' = FreshCompiledFiles(compiled_files)
    /\ LET ft == find_templates
       IN /\ templates' = ft.templates
          /\ found' = ft.templates
          /\ pc' = IF ft.raised THEN "config_error" ELSE "templates"
          /\ failure' = IF ft.raised THEN "ImproperlyConfigured" ELSE "none"
    /\ nodes' = <<>>
    /\ stdout' = <<>>
    /\ cur' = <<>>
    /\ written' = {}
    /\ removed' = {}
    /\ lastOp' = NoOp
    /\ prev' = [ran |-> pc # "idle", done |-> pc = "done", delete_files |-> delete_files,
                count |-> Len(compiled_files), compiled |-> compiled_files,
                written |-> written, removed |-> removed, disk |-> disk]
    /\ runs' = runs + 1
    /\ UNCHANGED <<TEMPLATE_LOADERS, tree, disk, generated>>

\* parse_template up to the for loop over the nodes: parse, the except
\* clauses, the walk and its except clause
parse_template(template_name) ==
    /\ pc = "templates"
    /\ template_name \in templates
    /\ LET parsed == Parse(template_name)
           caught == parsed.exc \in CaughtParseErrors
           out1 == IF caught /\ show_errors
                   THEN Append(stdout, ParseErrorLine(parsed.exc, template_name))
                   ELSE stdout
           \* after a UnicodeDecodeError `template` is unbound, and reading it
           \* inside the second try block raises UnboundLocalError
           walk == IF parsed.exc = "none"
                   THEN walk_nodes(parsed.template)
                   ELSE [nodes |-> <<>>, raised |-> TRUE]
           out2 == IF walk.raised /\ show_errors
                   THEN Append(out1, <<"Error parsing template", template_name>>)
                   ELSE out1
           todo == NodesToProcess(walk)
       IN IF parsed.exc # "none" /\ ~caught
          THEN /\ pc' = "crashed"
               /\ failure' = parsed.exc
               /\ UNCHANGED <<stdout, nodes>>
          ELSE IF parsed.exc \in ReturningParseErrors
          THEN /\ stdout' = out1
               /\ UNCHANGED <<pc, nodes, failure>>
          ELSE /\ stdout' = out2
               /\ nodes' = todo
               /\ pc' = NextPc(todo)
               /\ UNCHANGED failure
    /\ templates' = templates \ {template_name}
    /\ cur' = template_name
    /\ UNCHANGED <<TEMPLATE_LOADERS, tree, disk, show_errors, delete_files,
                   compiled_files, found, written, removed, generated, lastOp,
                   prev, runs>>

\* compile(node) for the next node of the for loop of parse_template; an
\* exception of sass.compile or of open is caught nowhere and leaves handle
compile ==
    /\ pc = "nodes"
    /\ ~delete_files
    /\ LET node == Head(nodes)
           rest == Tail(nodes)
           sass_filename == FindFile(node.path)
       IN /\ lastOp' = [op |-> "compile", path |-> node.path, sass_filename |-> sass_filename]
          /\ nodes' = rest
          /\ IF CompileSkips(sass_filename, compiled_files)
             THEN /\ pc' = NextPc(rest)
                  /\ UNCHANGED <<disk, compiled_files, stdout, written, generated, failure>>
             ELSE LET content == SassCompile(node.include_paths, sass_filename, output_style)
                      destpath == Destpath(sass_filename)
                  IN IF content.raised
                     THEN /\ pc' = "crashed"
                          /\ failure' = "CompileError"
                          /\ UNCHANGED <<disk, compiled_files, stdout, written, generated>>
                     ELSE IF ~Writable(destpath)
                     THEN /\ pc' = "crashed"
                          /\ failure' = "open"
                          /\ UNCHANGED <<disk, compiled_files, stdout, written, generated>>
                     ELSE /\ disk' = [disk EXCEPT ![destpath] = content.content]
                          /\ compiled_files' = AppendCompiled(compiled_files, sass_filename)
                          /\ stdout' = Append(stdout, <<"Compiled SASS/SCSS file", node.path>>)
                          /\ written' = written \cup {destpath}
                          /\ generated' = generated \cup {destpath}
                          /\ pc' = NextPc(rest)
                          /\ UNCHANGED failure
    /\ UNCHANGED <<TEMPLATE_LOADERS, tree, show_errors, delete_files, templates,
                   cur, found, removed, prev, runs>>

\* delete_file(node) for the next node of the for loop of parse_template; an
\* exception of os.remove is caught nowhere and leaves handle
delete_file ==
    /\ pc = "nodes"
    /\ delete_files
    /\ LET node == Head(nodes)
           rest == Tail(nodes)
           sass_filename == FindFile(node.path)
       IN /\ lastOp' = [op |-> "delete_file", path |-> node.path, sass_filename |-> sass_filename]
          /\ nodes' = rest
          /\ IF DeleteSkips(sass_filename)
             THEN /\ pc' = NextPc(rest)
                  /\ UNCHANGED <<disk, compiled_files, stdout, removed, failure>>
             ELSE LET destpath == Destpath(sass_filename)
                  IN IF ~IsFile(disk, destpath)
                     THEN /\ pc' = NextPc(rest)
                          /\ UNCHANGED <<disk, compiled_files, stdout, removed, failure>>
                     ELSE IF ~Writable(destpath)
                     THEN /\ pc' = "crashed"
                          /\ failure' = "remove"
                          /\ UNCHANGED <<disk, compiled_files, stdout, removed>>
                     ELSE /\ disk' = [disk EXCEPT ![destpath] = NoFile]
                          /\ compiled_files' = AppendCompiled(compiled_files, sass_filename)
                          /\ stdout' = Append(stdout, <<"Deleted", destpath>>)
                          /\ removed' = removed \cup {destpath}
                          /\ pc' = NextPc(rest)
                          /\ UNCHANGED failure
    /\ UNCHANGED <<TEMPLATE_LOADERS, tree, show_errors, delete_files, templates,
                   cur, found, written, generated, prev, runs>>

\* the end of handle: the summary line
report ==
    /\ pc = "templates"
    /\ templates = {}
    /\ stdout' = Append(stdout,
                        IF delete_files
                        THEN <<"Successfully deleted", Len(compiled_files)>>
                        ELSE <<"Successfully compiled", Len(compiled_files)>>)
    /\ pc' = "done"
    /\ UNCHANGED <<TEMPLATE_LOADERS, tree, disk, show_errors, delete_files,
                   compiled_files, templates, nodes, cur, found, failure, written,
                   removed, generated, lastOp, prev, runs>>

Next ==
    \/ handle
    \/ \E template_name \in templates : parse_template(template_name)
    \/ compile
    \/ delete_file
    \/ report

Spec == Init /\ [][Next]_vars

----------------------------------------------------------------------------
(* Properties. *)

\* the last line written to stdout
LastLine == stdout[Len(stdout)]

\* the sources referred to by the templates of this run that parse and walk
\* without an exception: the resolved path of every yielded reference
RefSources ==
    {f \in {FindFile(p) : p \in StaticFiles} :
        \E t \in found :
            /\ Parse(t).exc = "none"
            /\ LET walk == walk_nodes(Parse(t).template)
               IN /\ ~walk.raised
                  /\ \E i \in 1..Len(walk.nodes) : FindFile(walk.nodes[i].path) = f}

\* no two of the sources share the .css file they compile to
NoSharedCss(sources) ==
    \A f \in sources, g \in sources : Destpath(f) = Destpath(g) => f = g

CompileDone == pc = "done" /\ ~delete_files

DeleteDone == pc = "done" /\ delete_files

\* C1 as stated: a compile run over references to K distinct resolvable
\* sources ends with exactly K .css files written and the summary count K.
C1_KArtifacts ==
    CompileDone =>
        /\ Cardinality(written) = Cardinality(RefSources)
        /\ LastLine = <<"Successfully compiled", Cardinality(RefSources)>>

\* C1 amended: a compile run that reaches the summary reports the number K of
\* distinct resolved sources, and has written exactly the sibling .css file of
\* each of them: K files when no two sources share a sibling .css file.
C1_CountAndSiblings ==
    CompileDone =>
        /\ LastLine = <<"Successfully compiled", Cardinality(RefSources)>>
        /\ written = {Destpath(f) : f \in RefSources}
        /\ NoSharedCss(RefSources) => Cardinality(written) = Cardinality(RefSources)

C1_Witness ==
    /\ CompileDone
    /\ Cardinality(RefSources) >= 2
    /\ Cardinality(written) = Cardinality(RefSources)
    /\ \E i \in 1..Len(stdout) : stdout[i][1] = "Compiled SASS/SCSS file"

\* C2 as stated: a delete run after a compile run removes exactly the files
\* the compile run wrote and reports the count the compile run reported.
C2_DeleteMirrorsCompile ==
    (DeleteDone /\ prev.done /\ ~prev.delete_files) =>
        /\ removed = prev.written
        /\ LastLine = <<"Successfully deleted", prev.count>>

\* C2 amended: a delete run that reaches the summary after a compile run that
\* reached it removes exactly the files the compile run wrote and reports
\* their number, which is the compile run's count when no two compiled
\* sources share a .css file.
C2_DeleteRemovesWritten ==
    (DeleteDone /\ prev.done /\ ~prev.delete_files) =>
        /\ removed = prev.written
        /\ LastLine = <<"Successfully deleted", Cardinality(prev.written)>>
        /\ NoSharedCss(Range(prev.compiled)) =>
              LastLine = <<"Successfully deleted", prev.count>>

C2_Witness ==
    /\ DeleteDone
    /\ prev.done
    /\ ~prev.delete_files
    /\ prev.count >= 2
    /\ removed = prev.written
    /\ Len(compiled_files) = prev.count

\* C3 as stated: delete_file never removes a .css file that no compile run
\* wrote.
C3_RemovesOnlyGenerated ==
    [][\A d \in AllCss : (disk[d] # NoFile /\ disk'[d] = NoFile) => d \in generated]_vars

Running == pc \in {"templates", "nodes"}

C5_OneDiagnostic ==
    [][(/\ pc = "templates"
        /\ templates' # templates
        /\ Parse(cur').exc \in {"IOError", "TemplateSyntaxError",
                                "TemplateDoesNotExist", "UnicodeDecodeError"})
       => /\ pc' = "templates"
          /\ nodes' = <<>>
          /\ disk' = disk
          /\ compiled_files' = compiled_files
          /\ Len(stdout') = Len(stdout) + (IF show_errors THEN 1 ELSE 0)]_vars

\* C6 as stated: find_templates returns exactly the files under the template
\* roots that are no dotfiles and end in an extension of template_exts.
C6_AllowedExtensions ==
    pc \in {"templates", "nodes", "done", "crashed"} =>
        found = {Join(TemplateRoot, n) : n \in {m \in tree :
                    /\ ~StartsWith(m, <<".">>)
                    /\ \E ext \in template_exts : EndsWith(m, ext)}}

\* C7: in every state of a run, in either mode, each source path occurs at
\* most once in compiled_files.
C7_CompiledFilesUnique ==
    \A i \in 1..Len(compiled_files), j \in 1..Len(compiled_files) :
        compiled_files[i] = compiled_files[j] => i = j

C7_Witness ==
    /\ lastOp.op = "compile"
    /\ Len(compiled_files) >= 2
    /\ lastOp.sass_filename \in Range(compiled_files)
    /\ lastOp.sass_filename # compiled_files[Len(compiled_files)]
    /\ \E d \in AllCss : disk[d] = HandWritten

\* C8: compile and delete_file of a reference the resolver does not resolve
\* change neither compiled_files nor any file, write no line, whatever
\* show_errors, and the run goes on.
C8_UnresolvedIsNoop ==
    [][(pc = "nodes" /\ FindFile(Head(nodes).path) = <<>>)
       => /\ compiled_files' = compiled_files
          /\ disk' = disk
          /\ stdout' = stdout
          /\ written' = written
          /\ removed' = removed
          /\ pc' \in {"templates", "nodes"}]_vars

C8_Witness ==
    /\ lastOp.op = "delete_file"
    /\ lastOp.path = x_scss
    /\ lastOp.sass_filename = <<>>
    /\ show_errors
    /\ compiled_files # <<>>

\* C9 as stated: a second run in the same mode leaves every .css file with
\* the content it had and reports the same count (compile), or removes
\* nothing and reports 0 (delete).
C9_Idempotent ==
    (pc = "done" /\ prev.done /\ prev.delete_files = delete_files) =>
        IF delete_files
        THEN removed = {} /\ LastLine = <<"Successfully deleted", 0>>
        ELSE /\ \A d \in AllCss : disk[d] = prev.disk[d]
             /\ LastLine = <<"Successfully compiled", prev.count>>

\* C9 amended: after a run that reached the summary, a second run in the same
\* mode that reaches it reports the same count and writes the same files
\* (compile), each with the content it had unless two compiled sources share
\* that file, or removes nothing and reports 0 (delete).
C9_IdempotentUnshared ==
    (pc = "done" /\ prev.done /\ prev.delete_files = delete_files) =>
        IF delete_files
        THEN removed = {} /\ LastLine = <<"Successfully deleted", 0>>
        ELSE /\ LastLine = <<"Successfully compiled", prev.count>>
             /\ written = prev.written
             /\ \A d \in AllCss :
                   Cardinality({f \in Range(compiled_files) : Destpath(f) = d}) <= 1
                      => disk[d] = prev.disk[d]

C9_Witness ==
    /\ CompileDone
    /\ prev.done
    /\ ~prev.delete_files
    /\ prev.count >= 2
    /\ disk = prev.disk
    /\ written = prev.written

\* C10: when walking a template raises, none of its references is compiled
\* or deleted, compiled_files and the files are unchanged, and the run goes
\* on with the remaining templates.
C10_WalkFailureSkipsTemplate ==
    [][(/\ pc = "templates"
        /\ templates' # templates
        /\ Parse(cur').exc = "none"
        /\ walk_nodes(Parse(cur').template).raised)
       => /\ pc' = "templates"
          /\ nodes' = <<>>
          /\ compiled_files' = compiled_files
          /\ disk' = disk
          /\ templates' = templates \ {cur'}]_vars

C10_Witness ==
    /\ pc = "templates"
    /\ cur # <<>>
    /\ Parse(cur).exc = "none"
    /\ walk_nodes(Parse(cur).template).raised
    /\ walk_nodes(Parse(cur).template).nodes # <<>>
    /\ templates # {}
    /\ lastOp = NoOp

====
